---- MODULE Spec2Model ----
(***************************************************************************)
(* Model of src/main.py: the chord table CLUSTER_MAP, the analysis         *)
(* pipeline analyze_giant_steps and the script body that calls it.         *)
(*                                                                         *)
(* Two invocations of the script body ("a" and "b") analyse the same       *)
(* AUDIO_FILE and share the module-level table.  The external libraries    *)
(* are modelled by what the code relies on: array shapes, the shape        *)
(* preconditions under which they raise, and IEEE-754 double arithmetic    *)
(* in the frame/time conversions.  A waveform is represented by what the   *)
(* deterministic extractors compute from it: its frame count, the content  *)
(* class of each frame and its beat frames.  A matrix is a record          *)
(* [shape, axis, data, ...]: axis is the axis the analysis frames lie on,  *)
(* data[i] is the content class of frame i.                                *)
(***************************************************************************)
EXTENDS Integers, Sequences, FiniteSets, TLC

\* ---------------------------------------------------------------- bounds
MaxFrames == 16
MaxBeats == 2
PairMaxBeats == 1
DupPeriod == 3
RandomStates == 2

\* ------------------------------------------------------ program constants
SampleRate == 44100
hop_length == 512
n_chroma == 12
n_mfcc == 13
n_tonnetz == 6
n_components == 10
random_state == 42
Ndigits == 2
Mantissa == 52

\* The music-theory table, verbatim.
ChordTable ==
  [c \in 0..11 |->
     CASE c = 0  -> [key |-> "C",  chords |-> <<"Cmaj7", "G7alt", "A7#11", "Ebmaj7", "F#dim7", "Bb7sus4">>, function |-> "Tonic"]
       [] c = 1  -> [key |-> "G",  chords |-> <<"Gmaj7", "D7#9", "B7alt", "Abmaj7", "C#dim7", "F7b13">>, function |-> "Dominant"]
       [] c = 2  -> [key |-> "D",  chords |-> <<"Dmaj7", "A7#5", "F7alt", "Bbmaj7", "Ebdim7", "G7#11">>, function |-> "Subdominant"]
       [] c = 3  -> [key |-> "A",  chords |-> <<"Amaj7", "E7+9", "C7alt", "Dbmaj7", "Fdim7", "Bb7#5">>, function |-> "Modulation Bridge"]
       [] c = 4  -> [key |-> "E",  chords |-> <<"Emaj7", "B7b9", "G7alt", "Abmaj7", "Bbdim7", "D7#9">>, function |-> "Tritone Shift"]
       [] c = 5  -> [key |-> "B",  chords |-> <<"Bmaj7", "F#7alt", "Eb7#11", "Gmaj7", "C#dim7", "D7b5">>, function |-> "Primary Tonic"]
       [] c = 6  -> [key |-> "F#", chords |-> <<"F#maj7", "C#7+11", "A7alt", "Bbmaj7", "Ddim7", "E7#9">>, function |-> "Pivot Modulation"]
       [] c = 7  -> [key |-> "Db", chords |-> <<"C#maj7", "G#7alt", "F7#11", "Emaj7", "Gdim7", "A7b13">>, function |-> "Enharmonic Gateway"]
       [] c = 8  -> [key |-> "Ab", chords |-> <<"Abmaj7", "Eb7b9", "C7alt", "Bmaj7", "Dbdim7", "F7#5">>, function |-> "Secondary Dominant"]
       [] c = 9  -> [key |-> "Eb", chords |-> <<"Ebmaj7", "Bb7#9", "G7alt", "Amaj7", "Fdim7", "D7alt">>, function |-> "Tertiary Tonic"]
       [] c = 10 -> [key |-> "Bb", chords |-> <<"Bbmaj7", "F7alt", "D7#11", "Gbmaj7", "Adim7", "C7b9">>, function |-> "Dominant Preparation"]
       [] OTHER  -> [key |-> "F",  chords |-> <<"Fmaj7", "C7+11", "A7alt", "Dmaj7", "G#dim7", "Bb7#9">>, function |-> "Cycle Completion"]]

\* ------------------------------------------------- double-precision helpers
RECURSIVE Pow2(_)
Pow2(e) == IF e = 0 THEN 1 ELSE 2 * Pow2(e - 1)

RECURSIVE FloorLog2(_)
FloorLog2(n) == IF n < 2 THEN 0 ELSE 1 + FloorLog2(n \div 2)

RECURSIVE PowMod2(_, _)
PowMod2(e, m) == IF e = 0 THEN 1 % m ELSE (2 * PowMod2(e - 1, m)) % m

\* The least k with den * 2^E <= num * 2^k, where E = FloorLog2(num): the
\* binary exponent of num exceeds the binary exponent of num/den by k.
RECURSIVE ExpGap(_, _, _)
ExpGap(num, den, k) ==
  IF den * Pow2(FloorLog2(num)) <= num * Pow2(k) THEN k ELSE ExpGap(num, den, k + 1)

\* The double nearest to num/den (numpy true division of an integer by
\* float(den)).  With m the 53-bit significand of the quotient and s its
\* scale, err = m*den - num*2^s, so the double is exactly
\* (num + err * 2^-s) / den; gap = ExpGap fixes s = Mantissa - E + gap.
TrueDiv(num, den) ==
  IF num = 0 THEN [num |-> 0, den |-> den, err |-> 0, gap |-> 0]
  ELSE LET gap  == ExpGap(num, den, 0)
           s    == Mantissa - FloorLog2(num) + gap
           rmod == ((num % den) * PowMod2(s, den)) % den
       IN  [num |-> num, den |-> den,
            err |-> IF 2 * rmod < den THEN 0 - rmod ELSE den - rmod,
            gap |-> gap]

\* The double nearest to t * sr for t = TrueDiv(num, sr), truncated to an
\* integer by astype(int).  The exact product is num + err * 2^-s; it rounds
\* to the double below num exactly when it lies more than half a spacing
\* under num, and truncation then yields num - 1.
MulTrunc(t, sr) ==
  IF t.num = 0 THEN 0
  ELSE LET half == IF t.num = Pow2(FloorLog2(t.num)) THEN Pow2(t.gap - 2)
                   ELSE Pow2(t.gap - 1)
       IN  IF t.err < 0 /\ (0 - t.err) > half THEN t.num - 1 ELSE t.num

\* librosa.frames_to_time / time_to_frames with the default hop length
frames_to_samples(frames) == frames * hop_length

samples_to_time(samples, sr) == TrueDiv(samples, sr)

frames_to_time(frames, sr) == samples_to_time(frames_to_samples(frames), sr)

time_to_samples(t, sr) == MulTrunc(t, sr)

samples_to_frames(samples) == samples \div hop_length

time_to_frames(t, sr) == samples_to_frames(time_to_samples(t, sr))

\* round(t, 2), as an integer count of 10^-Ndigits seconds (hundredths)
RECURSIVE Pow10(_)
Pow10(e) == IF e = 0 THEN 1 ELSE 10 * Pow10(e - 1)

round(t, ndigits) == (2 * Pow10(ndigits) * t.num + t.den) \div (2 * t.den)


\* ------------------------------------------------------------- waveforms
\* Sequences of at most maxBeats strictly increasing frames below n
BeatGrids(n, maxBeats) ==
  {b \in UNION {[1..k -> 0..(n - 1)] : k \in 0..maxBeats} :
     \A j \in 1..(Len(b) - 1) : b[j] < b[j + 1]}

\* Frame counts on both sides of the shape preconditions of PCA and KMeans
FrameCounts == {n_components - 1, Cardinality(DOMAIN ChordTable) - 1,
                Cardinality(DOMAIN ChordTable), MaxFrames}

Waveforms(maxBeats) ==
  UNION {{[n |-> n, dup |-> d, beats |-> b] : d \in BOOLEAN, b \in BeatGrids(n, maxBeats)} :
           n \in FrameCounts}

NoAudio == [n |-> 0, dup |-> FALSE, beats |-> <<>>]

\* Content class of frame i (1-based): a periodic signal repeats its frames
FrameClass(w, i) == IF w.dup THEN (i - 1) % DupPeriod ELSE i - 1

\* --------------------------------------------------------------- matrices
NoMatrix == [shape |-> <<0, 0>>, axis |-> 0, data |-> <<>>, scaled |-> FALSE, rnd |-> 0]

\* A feature stream: one column per analysis frame
Feature(rows, w) ==
  [shape |-> <<rows, w.n>>, axis |-> 2,
   data |-> [i \in 1..w.n |-> FrameClass(w, i)], scaled |-> FALSE, rnd |-> 0]

Transpose(X) ==
  [shape |-> <<X.shape[2], X.shape[1]>>,
   axis |-> IF X.axis = 0 THEN 0 ELSE 3 - X.axis,
   data |-> X.data, scaled |-> X.scaled, rnd |-> X.rnd]

\* np.concatenate(..., axis=0): all inputs must agree on axis 1
CanConcatenate(A, B, C) == A.shape[2] = B.shape[2] /\ B.shape[2] = C.shape[2]

concatenate(A, B, C) ==
  [shape |-> <<A.shape[1] + B.shape[1] + C.shape[1], A.shape[2]>>,
   axis |-> A.axis, data |-> A.data, scaled |-> FALSE, rnd |-> 0]

\* StandardScaler.fit_transform: rescales the columns, keeps the shape
scaler_fit_transform(X) == [X EXCEPT !.scaled = TRUE]

\* PCA(n_components).fit_transform on (n_samples, n_features)
Min(a, b) == IF a < b THEN a ELSE b

CanPca(X) == n_components <= Min(X.shape[1], X.shape[2])

\* No random_state is passed to PCA: the solver's draw comes from the
\* process-global generator and is part of the result.
pca_fit_transform(X, draw) ==
  [shape |-> <<X.shape[1], n_components>>, axis |-> X.axis,
   data |-> X.data, scaled |-> X.scaled, rnd |-> draw]

\* Content class of sample i of X: a frame's class when the samples are the
\* frames, otherwise the channel number
RowClass(X, i) == IF X.axis = 1 THEN X.data[i] ELSE i - 1

\* Rows of X that differ from each other
DistinctRows(X) == Cardinality({RowClass(X, i) : i \in 1..X.shape[1]})

\* KMeans(n_clusters, random_state): a fixed function of the sample and the
\* seed; equal samples get equal labels, every label is below n_clusters
CanKMeans(X, k) == X.shape[1] >= k

kmeans_labels(X, k, seed) ==
  [i \in 1..X.shape[1] |-> (RowClass(X, i) + X.rnd + seed) % k]

\* ------------------------------------------------------------------ state
Runs == {"a", "b"}

VARIABLES CLUSTER_MAP, fileExists, audio,
          pc, invoked, y, beat_frames, beat_times,
          chroma, mfcc, tonnetz, chroma_mfcc_tonnetz,
          chroma_mfcc_tonnetz_norm, chroma_mfcc_tonnetz_pca,
          labels, changes, beat_no, frame_idx, cluster,
          exc, dropped, escaped, result, exit_code, stdout

env == <<CLUSTER_MAP, fileExists, audio>>
locals == <<y, beat_frames, beat_times, chroma, mfcc, tonnetz,
            chroma_mfcc_tonnetz, chroma_mfcc_tonnetz_norm,
            chroma_mfcc_tonnetz_pca, labels, changes, beat_no,
            frame_idx, cluster>>
outcome == <<exc, dropped, escaped, result, exit_code, stdout>>
vars == <<env, pc, invoked, locals, outcome>>

TrySteps == {"load", "beat_track", "features", "concatenate", "scaler",
             "pca", "kmeans", "assemble"}

\* What each step of the try block can raise besides its shape errors
Raises(step) ==
  CASE step = "load"     -> {"FileNotFoundError"}
    [] step = "assemble" -> {"MemoryError"}
    [] OTHER             -> {"ParameterError"}

\* except Exception: every class raised here derives from Exception
ExceptionClasses == {"FileNotFoundError", "MemoryError", "ParameterError", "ValueError"}

Catches(e) == e \in ExceptionClasses

\* The state before the script body of each started run has executed
InitWith(waves, started) ==
  /\ CLUSTER_MAP = ChordTable
  /\ \/ fileExists = TRUE /\ audio \in waves
     \/ fileExists = FALSE /\ audio = NoAudio
  /\ pc = [r \in Runs |-> IF r \in started THEN "main" ELSE "idle"]
  /\ invoked = [r \in Runs |-> FALSE]
  /\ y = [r \in Runs |-> NoAudio]
  /\ beat_frames = [r \in Runs |-> <<>>]
  /\ beat_times = [r \in Runs |-> <<>>]
  /\ chroma = [r \in Runs |-> NoMatrix]
  /\ mfcc = [r \in Runs |-> NoMatrix]
  /\ tonnetz = [r \in Runs |-> NoMatrix]
  /\ chroma_mfcc_tonnetz = [r \in Runs |-> NoMatrix]
  /\ chroma_mfcc_tonnetz_norm = [r \in Runs |-> NoMatrix]
  /\ chroma_mfcc_tonnetz_pca = [r \in Runs |-> NoMatrix]
  /\ labels = [r \in Runs |-> <<>>]
  /\ changes = [r \in Runs |-> <<>>]
  /\ beat_no = [r \in Runs |-> 0]
  /\ frame_idx = [r \in Runs |-> -1]
  /\ cluster = [r \in Runs |-> -1]
  /\ exc = [r \in Runs |-> "none"]
  /\ dropped = [r \in Runs |-> 0]
  /\ escaped = [r \in Runs |-> FALSE]
  /\ result = [r \in Runs |-> <<>>]
  /\ exit_code = [r \in Runs |-> -1]
  /\ stdout = [r \in Runs |-> <<>>]

\* One execution of the script
Init == InitWith(Waveforms(MaxBeats), {"a"})

\* Two executions on the same file, interleaved
InitPair == InitWith(Waveforms(PairMaxBeats), Runs)

\* ---------------------------------------------------------------- actions
\* The call returns or unwinds: its local variables are gone
DropLocals(r) ==
  /\ y' = [y EXCEPT ![r] = NoAudio]
  /\ beat_frames' = [beat_frames EXCEPT ![r] = <<>>]
  /\ beat_times' = [beat_times EXCEPT ![r] = <<>>]
  /\ chroma' = [chroma EXCEPT ![r] = NoMatrix]
  /\ mfcc' = [mfcc EXCEPT ![r] = NoMatrix]
  /\ tonnetz' = [tonnetz EXCEPT ![r] = NoMatrix]
  /\ chroma_mfcc_tonnetz' = [chroma_mfcc_tonnetz EXCEPT ![r] = NoMatrix]
  /\ chroma_mfcc_tonnetz_norm' = [chroma_mfcc_tonnetz_norm EXCEPT ![r] = NoMatrix]
  /\ chroma_mfcc_tonnetz_pca' = [chroma_mfcc_tonnetz_pca EXCEPT ![r] = NoMatrix]
  /\ labels' = [labels EXCEPT ![r] = <<>>]
  /\ changes' = [changes EXCEPT ![r] = <<>>]
  /\ beat_no' = [beat_no EXCEPT ![r] = 0]
  /\ frame_idx' = [frame_idx EXCEPT ![r] = -1]
  /\ cluster' = [cluster EXCEPT ![r] = -1]

\* Variant: the script calls the analysis without checking the file
MainCheckSkipped(r) ==
  /\ pc[r] = "main"
  /\ pc' = [pc EXCEPT ![r] = "load"]
  /\ invoked' = [invoked EXCEPT ![r] = TRUE]
  /\ UNCHANGED <<env, locals, outcome>>

\* if not os.path.exists(AUDIO_FILE): print, exit(1); else call the analysis
MainCheck(r) ==
  /\ pc[r] = "main"
  /\ IF fileExists
       THEN /\ pc' = [pc EXCEPT ![r] = "load"]
            /\ invoked' = [invoked EXCEPT ![r] = TRUE]
            /\ UNCHANGED <<exit_code, stdout>>
       ELSE /\ pc' = [pc EXCEPT ![r] = "exited"]
            /\ exit_code' = [exit_code EXCEPT ![r] = 1]
            /\ stdout' = [stdout EXCEPT ![r] = Append(@, "file not found")]
            /\ UNCHANGED invoked
  /\ UNCHANGED <<env, locals, exc, dropped, escaped, result>>

\* 1. librosa.load returned an ndarray
Load(r) ==
  /\ pc[r] = "load"
  /\ fileExists
  /\ y' = [y EXCEPT ![r] = audio]
  /\ stdout' = [stdout EXCEPT ![r] = Append(@, "loaded")]
  /\ pc' = [pc EXCEPT ![r] = "beat_track"]
  /\ UNCHANGED <<env, invoked, beat_frames, beat_times, chroma, mfcc, tonnetz,
                 chroma_mfcc_tonnetz, chroma_mfcc_tonnetz_norm,
                 chroma_mfcc_tonnetz_pca, labels, changes, beat_no, frame_idx,
                 cluster, exc, dropped, escaped, result, exit_code>>

\* 2. beat_track(units='frames') and frames_to_time
BeatTrack(r) ==
  /\ pc[r] = "beat_track"
  /\ beat_frames' = [beat_frames EXCEPT ![r] = y[r].beats]
  /\ beat_times' = [beat_times EXCEPT ![r] =
                      [j \in 1..Len(y[r].beats) |-> frames_to_time(y[r].beats[j], SampleRate)]]
  /\ stdout' = [stdout EXCEPT ![r] = Append(@, "beats")]
  /\ pc' = [pc EXCEPT ![r] = "features"]
  /\ UNCHANGED <<env, invoked, y, chroma, mfcc, tonnetz,
                 chroma_mfcc_tonnetz, chroma_mfcc_tonnetz_norm,
                 chroma_mfcc_tonnetz_pca, labels, changes, beat_no, frame_idx,
                 cluster, exc, dropped, escaped, result, exit_code>>

\* 3. chroma_cqt, mfcc, tonnetz at the common hop length
Features(r) ==
  /\ pc[r] = "features"
  /\ chroma' = [chroma EXCEPT ![r] = Feature(n_chroma, y[r])]
  /\ mfcc' = [mfcc EXCEPT ![r] = Feature(n_mfcc, y[r])]
  /\ tonnetz' = [tonnetz EXCEPT ![r] = Feature(n_tonnetz, y[r])]
  /\ pc' = [pc EXCEPT ![r] = "concatenate"]
  /\ UNCHANGED <<env, invoked, y, beat_frames, beat_times,
                 chroma_mfcc_tonnetz, chroma_mfcc_tonnetz_norm,
                 chroma_mfcc_tonnetz_pca, labels, changes, beat_no, frame_idx,
                 cluster, outcome>>

\* 4. np.concatenate([chroma, mfcc, tonnetz], axis=0)
Concatenate(r) ==
  /\ pc[r] = "concatenate"
  /\ IF CanConcatenate(chroma[r], mfcc[r], tonnetz[r])
       THEN /\ chroma_mfcc_tonnetz' = [chroma_mfcc_tonnetz EXCEPT ![r] =
                                         concatenate(chroma[r], mfcc[r], tonnetz[r])]
            /\ pc' = [pc EXCEPT ![r] = "scaler"]
            /\ UNCHANGED exc
       ELSE /\ exc' = [exc EXCEPT ![r] = "ValueError"]
            /\ pc' = [pc EXCEPT ![r] = "except"]
            /\ UNCHANGED chroma_mfcc_tonnetz
  /\ UNCHANGED <<env, invoked, y, beat_frames, beat_times, chroma, mfcc, tonnetz,
                 chroma_mfcc_tonnetz_norm, chroma_mfcc_tonnetz_pca, labels,
                 changes, beat_no, frame_idx, cluster,
                 dropped, escaped, result, exit_code, stdout>>

\* 5. scaler.fit_transform(chroma_mfcc_tonnetz.T).T
Scale(r) ==
  /\ pc[r] = "scaler"
  /\ chroma_mfcc_tonnetz_norm' = [chroma_mfcc_tonnetz_norm EXCEPT ![r] =
        Transpose(scaler_fit_transform(Transpose(chroma_mfcc_tonnetz[r])))]
  /\ pc' = [pc EXCEPT ![r] = "pca"]
  /\ UNCHANGED <<env, invoked, y, beat_frames, beat_times, chroma, mfcc, tonnetz,
                 chroma_mfcc_tonnetz, chroma_mfcc_tonnetz_pca, labels,
                 changes, beat_no, frame_idx, cluster, outcome>>

\* Variant: the normalised matrix is handed to PCA without the transpose
PcaInputUntransposed(X) == X

\* The matrix handed to PCA
PcaInput(X) == Transpose(X)

\* 6. pca.fit_transform(chroma_mfcc_tonnetz_norm.T)
Pca(r) ==
  /\ pc[r] = "pca"
  /\ IF CanPca(PcaInput(chroma_mfcc_tonnetz_norm[r]))
       THEN /\ \E draw \in 0..(RandomStates - 1) :
                 chroma_mfcc_tonnetz_pca' = [chroma_mfcc_tonnetz_pca EXCEPT ![r] =
                    pca_fit_transform(PcaInput(chroma_mfcc_tonnetz_norm[r]), draw)]
            /\ pc' = [pc EXCEPT ![r] = "kmeans"]
            /\ UNCHANGED exc
       ELSE /\ exc' = [exc EXCEPT ![r] = "ValueError"]
            /\ pc' = [pc EXCEPT ![r] = "except"]
            /\ UNCHANGED chroma_mfcc_tonnetz_pca
  /\ UNCHANGED <<env, invoked, y, beat_frames, beat_times, chroma, mfcc, tonnetz,
                 chroma_mfcc_tonnetz, chroma_mfcc_tonnetz_norm, labels,
                 changes, beat_no, frame_idx, cluster,
                 dropped, escaped, result, exit_code, stdout>>

\* n_clusters = len(CLUSTER_MAP)
n_clusters(table) == Cardinality(DOMAIN table)

\* 7. KMeans(n_clusters, n_init=10, random_state=42).fit(...).labels_
KMeans(r) ==
  /\ pc[r] = "kmeans"
  /\ IF CanKMeans(chroma_mfcc_tonnetz_pca[r], n_clusters(CLUSTER_MAP))
       THEN /\ labels' = [labels EXCEPT ![r] =
                 kmeans_labels(chroma_mfcc_tonnetz_pca[r], n_clusters(CLUSTER_MAP), random_state)]
            /\ pc' = [pc EXCEPT ![r] = "assemble"]
            /\ UNCHANGED exc
       ELSE /\ exc' = [exc EXCEPT ![r] = "ValueError"]
            /\ pc' = [pc EXCEPT ![r] = "except"]
            /\ UNCHANGED labels
  /\ UNCHANGED <<env, invoked, y, beat_frames, beat_times, chroma, mfcc, tonnetz,
                 chroma_mfcc_tonnetz, chroma_mfcc_tonnetz_norm,
                 chroma_mfcc_tonnetz_pca, changes, beat_no, frame_idx, cluster,
                 dropped, escaped, result, exit_code, stdout>>


\* Variant: the second chord of the row is selected
ChordOfSecond(cluster_info) == cluster_info["chords"][2]

\* cluster_info["chords"][0]: the first chord of the row
ChordOf(cluster_info) == cluster_info["chords"][1]

\* The entry built for beat time t from a table row
Entry(t, cluster_info) ==
  [time |-> round(t, Ndigits), key |-> cluster_info["key"], chord |-> ChordOf(cluster_info)]

\* Variant: the lookup consumes the chord it selects (chords.pop(0))
AfterPop(table, c) ==
  IF c \in DOMAIN table THEN [table EXCEPT ![c]["chords"] = Tail(@)] ELSE table

\* CLUSTER_MAP.get(cluster, None) reads the table and leaves it as it is
AfterGet(table, c) == table

\* Variant: the entry is appended twice
AppendTwice(chs, entry) == Append(Append(chs, entry), entry)

\* Variant: the entry is inserted at the head (changes.insert(0, entry))
Prepend(chs, entry) == <<entry>> \o chs

\* changes.append(entry)
AppendChange(chs, entry) == Append(chs, entry)

\* 8. one iteration of "for t in beat_times"
AssembleBeat(r) ==
  /\ pc[r] = "assemble"
  /\ beat_no[r] < Len(beat_times[r])
  /\ LET t   == beat_times[r][beat_no[r] + 1]
         idx == time_to_frames(t, SampleRate)
     IN  /\ beat_no' = [beat_no EXCEPT ![r] = @ + 1]
         /\ frame_idx' = [frame_idx EXCEPT ![r] = idx]
         /\ IF idx >= Len(labels[r])
              THEN \* labels[frame_idx] raises IndexError
                   /\ exc' = [exc EXCEPT ![r] = "IndexError"]
                   /\ pc' = [pc EXCEPT ![r] = "except"]
                   /\ UNCHANGED <<cluster, changes, CLUSTER_MAP>>
              ELSE /\ CLUSTER_MAP' = AfterGet(CLUSTER_MAP, labels[r][idx + 1])
                   /\ cluster' = [cluster EXCEPT ![r] = labels[r][idx + 1]]
                   /\ changes' = [changes EXCEPT ![r] =
                        IF labels[r][idx + 1] \in DOMAIN CLUSTER_MAP
                          THEN AppendChange(@, Entry(t, CLUSTER_MAP[labels[r][idx + 1]]))
                          ELSE @]
                   /\ UNCHANGED <<exc, pc>>
  /\ UNCHANGED <<fileExists, audio, invoked, y, beat_frames, beat_times, chroma, mfcc, tonnetz,
                 chroma_mfcc_tonnetz, chroma_mfcc_tonnetz_norm,
                 chroma_mfcc_tonnetz_pca, labels,
                 dropped, escaped, result, exit_code, stdout>>

\* return changes
Return(r) ==
  /\ pc[r] = "assemble"
  /\ beat_no[r] = Len(beat_times[r])
  /\ result' = [result EXCEPT ![r] = changes[r]]
  /\ pc' = [pc EXCEPT ![r] = "main_result"]
  /\ DropLocals(r)
  /\ UNCHANGED <<env, invoked, exc, dropped, escaped, exit_code, stdout>>

\* A library call or an allocation inside the try block raises
Raise(r) ==
  /\ pc[r] \in TrySteps
  /\ pc[r] = "assemble" => beat_no[r] < Len(beat_times[r])
  /\ \E e \in Raises(pc[r]) : exc' = [exc EXCEPT ![r] = e]
  /\ pc' = [pc EXCEPT ![r] = "except"]
  /\ UNCHANGED <<env, invoked, locals, dropped, escaped, result, exit_code, stdout>>

\* Variant: the handler returns the timeline built so far
ExceptResultPartial(chs) == chs

\* What the handler returns: return []
ExceptResult(chs) == <<>>

\* except Exception as e: print, return []; dropped records how many
\* entries the abandoned timeline held
Except(r) ==
  /\ pc[r] = "except"
  /\ IF Catches(exc[r])
       THEN /\ stdout' = [stdout EXCEPT ![r] = Append(@, "analysis failed")]
            /\ result' = [result EXCEPT ![r] = ExceptResult(changes[r])]
            /\ pc' = [pc EXCEPT ![r] = "main_result"]
            /\ UNCHANGED <<escaped, exit_code>>
       ELSE \* the exception leaves analyze_giant_steps and ends the script
            /\ escaped' = [escaped EXCEPT ![r] = TRUE]
            /\ exit_code' = [exit_code EXCEPT ![r] = 1]
            /\ pc' = [pc EXCEPT ![r] = "exited"]
            /\ UNCHANGED <<stdout, result>>
  /\ exc' = [exc EXCEPT ![r] = "none"]
  /\ dropped' = [dropped EXCEPT ![r] = Len(changes[r])]
  /\ DropLocals(r)
  /\ UNCHANGED <<env, invoked>>

\* if result: print the list literal; else: print the warning
MainResult(r) ==
  /\ pc[r] = "main_result"
  /\ stdout' = [stdout EXCEPT ![r] =
                  Append(@, IF result[r] # <<>> THEN "CHORD_CHANGES" ELSE "no results")]
  /\ exit_code' = [exit_code EXCEPT ![r] = 0]
  /\ pc' = [pc EXCEPT ![r] = "exited"]
  /\ UNCHANGED <<env, invoked, locals, exc, dropped, escaped, result>>

Next ==
  \E r \in Runs :
    \/ MainCheck(r)
    \/ Load(r)
    \/ BeatTrack(r)
    \/ Features(r)
    \/ Concatenate(r)
    \/ Scale(r)
    \/ Pca(r)
    \/ KMeans(r)
    \/ AssembleBeat(r)
    \/ Return(r)
    \/ Raise(r)
    \/ Except(r)
    \/ MainResult(r)

Spec == Init /\ [][Next]_vars

SpecPair == InitPair /\ [][Next]_vars


\* ------------------------------------------------------------- properties
Finished(r) == pc[r] \in {"main_result", "exited"}

\* The handler of the run has printed its diagnostic
Failed(r) == \E i \in 1..Len(stdout[r]) : stdout[r][i] = "analysis failed"

\* The run went through the whole pipeline and returned its timeline
Succeeded(r) == Finished(r) /\ invoked[r] /\ ~Failed(r)

\* The time of beat k of the file's beat grid as an exact fraction of a second
GridTime(k) == [num |-> frames_to_samples(audio.beats[k]), den |-> SampleRate]

\* The distinct analysis frames of the file
DistinctFrames == Cardinality({FrameClass(audio, i) : i \in 1..audio.n})

\* C1: whichever step of the try block fails, the call returns the empty
\* list and no exception leaves it; entries appended to the timeline before
\* a failure during assembly are not returned.
C1_EmptyOnFailure ==
  \A r \in Runs :
    /\ ~escaped[r]
    /\ exc[r] # "none" => pc[r] = "except"
    /\ Failed(r) => Finished(r) /\ result[r] = <<>>

C1_Witness ==
  \E r \in Runs :
    /\ pc[r] = "exited" /\ Failed(r) /\ dropped[r] > 0
    /\ result[r] = <<>> /\ exit_code[r] = 0

\* The (key, chord) pairs of the first chords of the table
FirstPairs == {<<ChordTable[c]["key"], ChordTable[c]["chords"][1]>> : c \in DOMAIN ChordTable}

\* The chords that stand after the first one in row c
LaterChords(c) == {ChordTable[c]["chords"][j] : j \in 2..Len(ChordTable[c]["chords"])}

Timelines == {changes[r] : r \in Runs} \cup {result[r] : r \in Runs}

\* Every cluster id below 12 maps to the non-empty (key, first chord) pair of
\* its row, and every timeline entry carries one of the 12 pairs
MapperTotal ==
  /\ \A c \in 0..11 :
       /\ c \in DOMAIN CLUSTER_MAP
       /\ Entry(TrueDiv(0, SampleRate), CLUSTER_MAP[c])["key"] = ChordTable[c]["key"]
       /\ Entry(TrueDiv(0, SampleRate), CLUSTER_MAP[c])["chord"] = ChordTable[c]["chords"][1]
       /\ ChordTable[c]["key"] # "" /\ ChordTable[c]["chords"][1] # ""
  /\ \A tl \in Timelines : \A k \in 1..Len(tl) :
       <<tl[k]["key"], tl[k]["chord"]>> \in FirstPairs

\* C2 (as stated): the mapper is total and returns the first chord, and no
\* timeline entry carries a chord that is a later chord of any row.
C2_NeverLaterChordOfAnyRow ==
  /\ MapperTotal
  /\ \A tl \in Timelines : \A k \in 1..Len(tl) :
       \A c \in DOMAIN ChordTable : tl[k]["chord"] \notin LaterChords(c)

\* C2 (amended): the mapper is total and returns the first chord, and no
\* timeline entry carries a later chord of the row its key belongs to.
C2_FirstChordOfOwnRow ==
  /\ MapperTotal
  /\ \A tl \in Timelines : \A k \in 1..Len(tl) :
       \A c \in DOMAIN ChordTable :
         tl[k]["key"] = ChordTable[c]["key"] => tl[k]["chord"] \notin LaterChords(c)

C2_Witness ==
  \E r \in Runs :
    /\ Succeeded(r) /\ result[r] # <<>>
    /\ \E c \in DOMAIN ChordTable : result[r][1]["chord"] \in LaterChords(c)

\* C3: the timeline never has more entries than beats were processed, and
\* the returned timeline is at most as long as the beat grid.
C3_LengthAtMostBeats ==
  \A r \in Runs :
    /\ Len(changes[r]) <= beat_no[r]
    /\ beat_no[r] <= Len(beat_times[r])
    /\ Len(beat_times[r]) <= Len(audio.beats)
    /\ Len(result[r]) <= Len(audio.beats)

C3_Witness ==
  \E r \in Runs : Succeeded(r) /\ Len(audio.beats) >= 2 /\ Len(result[r]) = Len(audio.beats)

\* C4: entry k of the timeline comes from beat k and carries that beat's
\* time rounded to two decimals, and the emitted times ascend.
C4_BeatOrder ==
  \A r \in Runs :
    /\ \A k \in 1..Len(beat_times[r]) :
         beat_times[r][k].num = GridTime(k).num /\ beat_times[r][k].den = GridTime(k).den
    /\ \A tl \in {changes[r], result[r]} :
         /\ \A k \in 1..Len(tl) : tl[k]["time"] = round(GridTime(k), Ndigits)
         /\ \A j, k \in 1..Len(tl) : j < k => tl[j]["time"] <= tl[k]["time"]

C4_Witness ==
  \E r \in Runs :
    /\ Succeeded(r) /\ Len(result[r]) >= 2
    /\ result[r][1]["time"] < result[r][2]["time"]

\* C5: two runs on the same waveform compute the same reduced matrix and
\* the same labels, and return the same timeline when both complete.
C5_Deterministic ==
  \A r1, r2 \in Runs :
    /\ chroma_mfcc_tonnetz_pca[r1] # NoMatrix /\ chroma_mfcc_tonnetz_pca[r2] # NoMatrix
         => chroma_mfcc_tonnetz_pca[r1] = chroma_mfcc_tonnetz_pca[r2]
    /\ labels[r1] # <<>> /\ labels[r2] # <<>> => labels[r1] = labels[r2]
    /\ Succeeded(r1) /\ Succeeded(r2) => result[r1] = result[r2]

\* C6: a missing file ends the script with exit status 1 before the
\* pipeline is invoked and with no timeline; once the pipeline is invoked
\* the script ends with status 0, also when the result is empty.
C6_MissingFileIsFatal ==
  \A r \in Runs :
    /\ invoked[r] => fileExists
    /\ pc[r] = "exited" =>
         /\ ~fileExists => exit_code[r] = 1 /\ ~invoked[r] /\ result[r] = <<>>
         /\ fileExists => exit_code[r] = 0 /\ invoked[r]

C6_Witness ==
  \E r \in Runs : pc[r] = "exited" /\ ~fileExists /\ exit_code[r] = 1 /\ stdout[r] = <<"file not found">>

\* C7: when the reduced matrix has fewer distinct rows than there are
\* clusters, clustering fails: no labels, no timeline entries.
C7_InsufficientDataGuard ==
  \A r \in Runs :
    /\ /\ chroma_mfcc_tonnetz_pca[r] # NoMatrix
       /\ DistinctRows(chroma_mfcc_tonnetz_pca[r]) < Cardinality(DOMAIN ChordTable)
       /\ pc[r] # "kmeans"
       => labels[r] = <<>> /\ changes[r] = <<>>
    /\ DistinctFrames < Cardinality(DOMAIN ChordTable) => result[r] = <<>>

\* C8: once clustering has completed there is one label per frame of the
\* fused matrix, and every label is below 12 and a key of the table.
C8_LabelsTotalInRange ==
  \A r \in Runs :
    labels[r] # <<>> =>
      /\ Len(labels[r]) = chroma_mfcc_tonnetz[r].shape[2]
      /\ Len(labels[r]) = y[r].n
      /\ \A i \in 1..Len(labels[r]) :
           labels[r][i] \in 0..11 /\ labels[r][i] \in DOMAIN CLUSTER_MAP

C8_Witness ==
  \E r \in Runs :
    /\ pc[r] = "assemble" /\ labels[r] # <<>>
    /\ {labels[r][i] : i \in 1..Len(labels[r])} # 0..11

\* The timeline the loop builds from a run's own beat times and labels
RECURSIVE TimelineOf(_, _, _)
TimelineOf(times, labs, table) ==
  IF times = <<>> THEN <<>>
  ELSE LET t == times[Len(times)]
           c == labs[time_to_frames(t, SampleRate) + 1]
       IN  Append(TimelineOf(SubSeq(times, 1, Len(times) - 1), labs, table),
                  [time |-> round(t, Ndigits), key |-> table[c]["key"],
                   chord |-> table[c]["chords"][1]])

\* C9: no step writes the chord table: in every state of any interleaving of
\* two runs it is the 12-row table of the source, and the timeline a run
\* has built is the one its own beats and labels give against that table.
C9_TableNeverWritten ==
  /\ CLUSTER_MAP = ChordTable
  /\ Cardinality(DOMAIN CLUSTER_MAP) = 12
  /\ \A r \in Runs :
       pc[r] = "assemble" =>
         changes[r] = TimelineOf(SubSeq(beat_times[r], 1, beat_no[r]), labels[r], ChordTable)

C9_Witness ==
  /\ \A r \in Runs : pc[r] = "assemble" /\ changes[r] # <<>>
  /\ chroma_mfcc_tonnetz_pca["a"] # chroma_mfcc_tonnetz_pca["b"]

\* C10: the frame looked up for a beat is the beat's own frame and a valid
\* index into the labels.
C10_RoundTrip ==
  \A r \in Runs :
    pc[r] = "assemble" /\ beat_no[r] > 0 =>
      /\ frame_idx[r] = beat_frames[r][beat_no[r]]
      /\ 0 <= frame_idx[r] /\ frame_idx[r] < Len(labels[r])

====
